---------------------------- MODULE Spec2Model ----------------------------
(***************************************************************************)
(* A model of iprange.js (joelob99/iprange, JavaScript v1.0.0): the        *)
(* address codecs, the address validators, the range-to-subnet             *)
(* decomposers and the IPv4Range / IPv6Range handles.                      *)
(*                                                                         *)
(* Scaling.  TLC's integers are 32-bit signed, so the 32-bit and 128-bit   *)
(* address spaces of the source do not fit.  The model keeps the shape of  *)
(* the source and scales the group sizes:                                  *)
(*   IPv4: 4 decimal octets of OctetBits bits (8 in the source),           *)
(*   IPv6: NumHextets groups (8 in the source) of HextetDigits hex digits  *)
(*         (4 in the source).                                              *)
(* The decomposer is one routine in the source written twice (Number and   *)
(* BigInt); it is modelled once, as a machine with an explicit call stack, *)
(* with the address width as a parameter.                                  *)
(*                                                                         *)
(* Texts are sequences of one-character strings.                           *)
(***************************************************************************)
EXTENDS Integers, Sequences, FiniteSets, TLC

(***************************************************************************)
(* Bounds of the model.                                                    *)
(***************************************************************************)
\* The decomposer is checked exhaustively at every width 1..MaxWidth.
MaxWidth == 6
\* Bits per IPv4 octet in the scaled model (the source has 8: octets < 256).
OctetBits == 4
\* Hex digits per IPv6 group in the scaled model (the source has 4).
HextetDigits == 2

\* Groups per address.
NumOctets == 4
NumHextets == 2

RECURSIVE Pow(_, _)
Pow(b, n) == IF n = 0 THEN 1 ELSE b * Pow(b, n - 1)

\* The source's 256 (octet limit), scaled.
OctetSize == Pow(2, OctetBits)
\* The source's 65536 (0xFFFF + 1), scaled.
HextetSize == Pow(16, HextetDigits)
IPv4Width == NumOctets * OctetBits
IPv6Width == NumHextets * HextetDigits * 4

(***************************************************************************)
(* JavaScript values.  A Number that may be NaN, and undefined, are        *)
(* records so that TLC can compare them with each other.                   *)
(***************************************************************************)
Undefined == [kind |-> "undefined", val |-> 0]
NaN == [kind |-> "NaN", val |-> 0]
Num(n) == [kind |-> "number", val |-> n]
IsNum(x) == x.kind = "number"

\* JavaScript's relational operators on Numbers: false when an operand is NaN.
JsLT(x, y) == IsNum(x) /\ IsNum(y) /\ x.val < y.val
JsGT(x, y) == IsNum(x) /\ IsNum(y) /\ x.val > y.val
JsGE(x, y) == IsNum(x) /\ IsNum(y) /\ x.val >= y.val
\* x * m + y on Numbers: NaN propagates.
JsMulAdd(x, m, y) == IF IsNum(x) /\ IsNum(y) THEN Num(x.val * m + y.val) ELSE NaN

(***************************************************************************)
(* Text primitives of the JavaScript runtime the source calls.             *)
(***************************************************************************)
DecDigits == <<"0", "1", "2", "3", "4", "5", "6", "7", "8", "9">>
HexDigits == <<"0", "1", "2", "3", "4", "5", "6", "7", "8", "9",
               "a", "b", "c", "d", "e", "f">>
HexUpper == <<"0", "1", "2", "3", "4", "5", "6", "7", "8", "9",
              "A", "B", "C", "D", "E", "F">>

IsDecDigit(c) == \E i \in 1..10 : DecDigits[i] = c
DecDigitVal(c) == (CHOOSE i \in 1..10 : DecDigits[i] = c) - 1
IsHexChar(c) == \E i \in 1..16 : HexDigits[i] = c \/ HexUpper[i] = c
HexCharVal(c) == (CHOOSE i \in 1..16 : HexDigits[i] = c \/ HexUpper[i] = c) - 1

\* String.prototype.indexOf(c) != -1
Contains(s, c) == \E k \in 1..Len(s) : s[k] = c

\* String.prototype.split(c) for a one-character separator.
RECURSIVE Split(_, _)
Split(s, c) ==
    IF ~Contains(s, c) THEN <<s>>
    ELSE LET k == CHOOSE j \in 1..Len(s) :
                      s[j] = c /\ \A h \in 1..(j - 1) : s[h] # c
         IN  <<SubSeq(s, 1, k - 1)>> \o Split(SubSeq(s, k + 1, Len(s)), c)

\* Number.prototype.toString(10) of a non-negative integer.
RECURSIVE DecString(_)
DecString(n) ==
    IF n < 10 THEN <<DecDigits[n + 1]>>
    ELSE DecString(n \div 10) \o <<DecDigits[(n % 10) + 1]>>

\* BigInt.prototype.toString(16) of a non-negative integer: lowercase.
RECURSIVE HexString(_)
HexString(n) ==
    IF n < 16 THEN <<HexDigits[n + 1]>>
    ELSE HexString(n \div 16) \o <<HexDigits[(n % 16) + 1]>>

\* The value of a sequence of decimal digits.
RECURSIVE DecValue(_)
DecValue(d) ==
    IF d = <<>> THEN 0
    ELSE DecValue(SubSeq(d, 1, Len(d) - 1)) * 10 + DecDigitVal(d[Len(d)])

\* The value of a sequence of hex digits of either case.
RECURSIVE HexValue(_)
HexValue(d) ==
    IF d = <<>> THEN 0
    ELSE HexValue(SubSeq(d, 1, Len(d) - 1)) * 16 + HexCharVal(d[Len(d)])

\* The longest prefix of s made of decimal digits.
RECURSIVE DigitPrefix(_)
DigitPrefix(s) ==
    IF s = <<>> \/ ~IsDecDigit(Head(s)) THEN <<>>
    ELSE <<Head(s)>> \o DigitPrefix(Tail(s))

RECURSIVE TrimLeft(_)
TrimLeft(s) == IF s # <<>> /\ Head(s) = " " THEN TrimLeft(Tail(s)) ELSE s

\* parseInt(s, 10): leading white space is skipped, then an optional sign,
\* then the longest run of digits; NaN when there is no digit.  What follows
\* the digits is ignored.
ParseInt(s) ==
    LET t == TrimLeft(s)
        signed == t # <<>> /\ Head(t) \in {"+", "-"}
        body == IF signed THEN Tail(t) ELSE t
        d == DigitPrefix(body)
    IN  IF d = <<>> THEN NaN
        ELSE IF signed /\ Head(t) = "-" THEN Num(0 - DecValue(d))
        ELSE Num(DecValue(d))

\* BigInt('0x' + s) for s made of hex digits (the only strings that reach it).
BigIntHex(s) == HexValue(s)

\* ('000' + s).slice(-4): left-pad with HextetDigits - 1 zeros and keep the
\* last HextetDigits characters.
PadSlice(s) ==
    LET p == [k \in 1..(HextetDigits - 1) |-> "0"] \o s
    IN  SubSeq(p, Len(p) - HextetDigits + 1, Len(p))

\* ToUint32 of a Number, as >>> and & apply it (scaled to IPv4Width bits).
ToUint(x) == IF IsNum(x) THEN x.val % Pow(2, IPv4Width) ELSE 0

(***************************************************************************)
(* IPv4 validator and codec.                                               *)
(***************************************************************************)
\* arrayStrIPv4Octet[i] parsed; a missing element is undefined and parses
\* to NaN.
OctetAt(parts, i) == IF i <= Len(parts) THEN ParseInt(parts[i]) ELSE NaN

\* intOctet >= 256 || intOctet < 0
OctetOutOfRange(intOctet) == JsGE(intOctet, Num(OctetSize)) \/ JsLT(intOctet, Num(0))

_isIPv4Addr(strIPv4Addr) ==
    LET arrayStrIPv4Octet == Split(strIPv4Addr, ".")
    IN  IF Len(arrayStrIPv4Octet) # NumOctets THEN FALSE
        ELSE \A i \in 1..NumOctets :
                 ~OctetOutOfRange(ParseInt(arrayStrIPv4Octet[i]))

_toIPv4AddrInteger(strIPv4Addr) ==
    LET arrayIPv4Octet == Split(strIPv4Addr, ".")
        hi == JsMulAdd(OctetAt(arrayIPv4Octet, 1), Pow(OctetSize, 3), Num(0))
        h2 == JsMulAdd(OctetAt(arrayIPv4Octet, 2), Pow(OctetSize, 2), hi)
        h3 == JsMulAdd(OctetAt(arrayIPv4Octet, 3), OctetSize, h2)
    IN  JsMulAdd(OctetAt(arrayIPv4Octet, 4), 1, h3)

\* ((n >>> shift) & 0xFF).toString(10)
OctetString(n, k) == DecString((ToUint(n) \div Pow(OctetSize, k)) % OctetSize)

_toIPv4AddrString(intIPv4AddrInteger) ==
    OctetString(intIPv4AddrInteger, 3) \o <<".">> \o
    OctetString(intIPv4AddrInteger, 2) \o <<".">> \o
    OctetString(intIPv4AddrInteger, 1) \o <<".">> \o
    OctetString(intIPv4AddrInteger, 0)

(***************************************************************************)
(* IPv6 validator and codec.  Addresses are BigInts: never NaN.            *)
(***************************************************************************)
\* (c >= '0' && c <= '9') || (c >= 'a' && c <= 'f')
IsHextetChar(c) == \E i \in 1..16 : HexDigits[i] = c

_isIPv6Addr(strIPv6Addr) ==
    LET arrayStrIPv6Hextet == Split(strIPv6Addr, ":")
    IN  IF Len(arrayStrIPv6Hextet) # NumHextets THEN FALSE
        ELSE \A i \in 1..NumHextets :
                 /\ Len(arrayStrIPv6Hextet[i]) = HextetDigits
                 /\ \A k \in 1..HextetDigits :
                        IsHextetChar(arrayStrIPv6Hextet[i][k])

\* BigInt('0x' + h[1]) * 2^112 + ... + BigInt('0x' + h[8]), over the first
\* n groups.
RECURSIVE HextetSum(_, _)
HextetSum(arrayIPv6Hextet, n) ==
    IF n = 0 THEN 0
    ELSE HextetSum(arrayIPv6Hextet, n - 1) * HextetSize
             + BigIntHex(arrayIPv6Hextet[n])

_toIPv6AddrInteger(strIPv6Addr) ==
    Num(HextetSum(Split(strIPv6Addr, ":"), NumHextets))

\* A slip in HextetString: the group is not padded with zeros.
HextetString_NoPad(n, k) ==
    HexString((n \div Pow(HextetSize, k)) % HextetSize)

\* ('000' + (n / 2^(16 k) & 0xFFFFn).toString(16)).slice(-4)
HextetString(n, k) ==
    PadSlice(HexString((n \div Pow(HextetSize, k)) % HextetSize))

\* The groups from the one of weight k down to the last, joined by ':'.
RECURSIVE HextetJoin(_, _)
HextetJoin(n, k) ==
    IF k = 0 THEN HextetString(n, 0)
    ELSE HextetString(n, k) \o <<":">> \o HextetJoin(n, k - 1)

_toIPv6AddrString(bintIPv6AddrInteger) ==
    HextetJoin(bintIPv6AddrInteger.val, NumHextets - 1)

(***************************************************************************)
(* State.                                                                  *)
(***************************************************************************)
VARIABLES
    \* The class of the handle under test: "IPv4Range" or "IPv6Range";
    \* "none" when the decomposer or the codec is called directly.
    cls,
    \* The decomposer: the call stack of its running invocations (one frame
    \* per invocation, the innermost last), the number of loop iterations
    \* (32 or 128 in the source) and the array the entries are pushed to.
    stack, dWidth, arraySave,
    \* A direct call of the decomposer: its position and its arguments, and
    \* the arguments and result of the call made before it at a narrower
    \* width, when there was one.
    dPc, dStart, dEnd, dNarrow,
    \* The handle: the position of its setter, its three fields, and the
    \* text and outcome of the last setter call.
    hPc, _intStartAddr, _intEndAddr, _arraySubnet, lastText, lastOutcome,
    \* Whether a setter call has returned without throwing.
    everSet,
    \* A direct call of the codec: direction, input, intermediate and
    \* final value.
    cDir, cInt, cText, cInt2, cText2

mvars == <<stack, dWidth, arraySave>>
dvars == <<dPc, dStart, dEnd, dNarrow>>
hvars == <<hPc, _intStartAddr, _intEndAddr, _arraySubnet, lastText,
           lastOutcome, everSet>>
cvars == <<cDir, cInt, cText, cInt2, cText2>>
vars == <<cls, mvars, dvars, hvars, cvars>>

\* this._arraySubnet refers to the array the decomposer fills: once the
\* setter replaces it, the array it referred to before is unreachable, so
\* one array (arraySave) is alive at a time.
ArrayRef == [kind |-> "array", val |-> 0]

(***************************************************************************)
(* The decomposer: _makeIPv4SubnetFromRange (Number, 32 iterations) and    *)
(* _makeIPv6SubnetFromRange (BigInt, 128 iterations) are the same routine. *)
(* The Number version divides by a power of two and truncates; start, end  *)
(* and intSegSize stay below 2^33, so the floating-point quotient is exact *)
(* and Math.trunc(a / b) is the integer                                    *)
(* quotient, as the BigInt version's a / b is.                             *)
(* A frame holds the locals of one invocation and its position:            *)
(*   "loop"      at the head of the for loop,                              *)
(*   "segments"  before the while loop (after the lower leftover's call),  *)
(*   "clamp"     after the upper leftover's call.                          *)
(***************************************************************************)
\* A slip in BlockStart: the division binds to segSize - 1 alone, so start
\* is not rounded up.
BlockStart_NoRounding(intStartAddr, intSegSize) ==
    intStartAddr + ((intSegSize - 1) \div intSegSize) * intSegSize

\* Math.trunc((start + segSize - 1) / segSize) * segSize
BlockStart(intStartAddr, intSegSize) ==
    ((intStartAddr + intSegSize - 1) \div intSegSize) * intSegSize

\* A slip in BlockEnd: the final - 1 is left out.
BlockEnd_NoDecrement(intEndAddr, intSegSize) ==
    ((intEndAddr + 1) \div intSegSize) * intSegSize

\* (Math.trunc((end + 1) / segSize) * segSize) - 1
BlockEnd(intEndAddr, intSegSize) ==
    (((intEndAddr + 1) \div intSegSize) * intSegSize) - 1

\* A slip in FirstSegSize: every width starts from the first segment size
\* of the widest routine, as a routine copied from the other would.
FirstSegSize_Copied(w) == Pow(2, MaxWidth - 1)

\* let intSegSize = 2147483648 (2^31), 2n**127n
FirstSegSize(w) == Pow(2, w - 1)

\* A slip in SubnetEntry: the prefix length is counted from 0.
SubnetEntry_PrefixFromZero(intSegStart, i) ==
    CASE cls = "IPv4Range" ->
             _toIPv4AddrString(Num(intSegStart)) \o <<"/">> \o DecString(i - 1)
      [] cls = "IPv6Range" ->
             _toIPv6AddrString(Num(intSegStart)) \o <<"/">> \o DecString(i - 1)
      [] OTHER -> [base |-> intSegStart, prefix |-> i - 1]

\* The entry pushed for the segment at intSegStart in iteration i: the text
\* address/prefix in a handle; the pair itself in a direct call, where the
\* claims read the base and the prefix.
SubnetEntry(intSegStart, i) ==
    CASE cls = "IPv4Range" ->
             _toIPv4AddrString(Num(intSegStart)) \o <<"/">> \o DecString(i)
      [] cls = "IPv6Range" ->
             _toIPv6AddrString(Num(intSegStart)) \o <<"/">> \o DecString(i)
      [] OTHER -> [base |-> intSegStart, prefix |-> i]

\* A slip in PushSegments: unshift for push, so an entry goes to the front
\* of the array.
RECURSIVE PushSegments_Unshift(_, _, _, _, _)
PushSegments_Unshift(intSegStart, intSegSize, intBlockEnd, i, array) ==
    IF intSegStart + intSegSize - 1 <= intBlockEnd
    THEN PushSegments_Unshift(intSegStart + intSegSize, intSegSize,
                              intBlockEnd, i,
                              <<SubnetEntry(intSegStart, i)>> \o array)
    ELSE [array |-> array, segStart |-> intSegStart]

\* while (intSegEnd <= intBlockEnd) { push; intSegStart += intSegSize; ... }
\* The array after the loop and the final intSegStart.
RECURSIVE PushSegments(_, _, _, _, _)
PushSegments(intSegStart, intSegSize, intBlockEnd, i, array) ==
    IF intSegStart + intSegSize - 1 <= intBlockEnd
    THEN PushSegments(intSegStart + intSegSize, intSegSize, intBlockEnd, i,
                      Append(array, SubnetEntry(intSegStart, i)))
    ELSE [array |-> array, segStart |-> intSegStart]

\* A slip in the loop's first values: it starts at prefix length 2 and a
\* quarter of the address space (at width 1 there is no such size).
NewFrame_FromPrefix2(w, intStartAddr, intEndAddr, isNaN) ==
    [pc |-> "loop", i |-> IF w > 1 THEN 2 ELSE 1,
     segSize |-> IF w > 1 THEN Pow(2, w - 2) ELSE 1,
     start |-> intStartAddr, end |-> intEndAddr,
     blockStart |-> 0, blockEnd |-> 0, nan |-> isNaN, emitAt |-> {}]

\* The frame of a new invocation.  nan: an argument is NaN (IPv4 only);
\* start and end are then not read.  emitAt is not a local of the routine:
\* it records the values of i at which this invocation's own while loop has
\* pushed entries.
NewFrame(w, intStartAddr, intEndAddr, isNaN) ==
    [pc |-> "loop", i |-> 1, segSize |-> FirstSegSize(w),
     start |-> intStartAddr, end |-> intEndAddr,
     blockStart |-> 0, blockEnd |-> 0, nan |-> isNaN, emitAt |-> {}]

Top == stack[Len(stack)]
Push(caller, callee) ==
    SubSeq(stack, 1, Len(stack) - 1) \o <<caller, callee>>
SetTop(f) == SubSeq(stack, 1, Len(stack) - 1) \o <<f>>

\* intSegSize = Math.trunc(intSegSize / 2); ++i
NextIteration(f) ==
    [f EXCEPT !.pc = "loop", !.i = @ + 1, !.segSize = @ \div 2]

\* intBlockStart <= intBlockEnd: false when an operand is NaN.
BlockFits(f) ==
    /\ ~f.nan
    /\ BlockStart(f.start, f.segSize) <= BlockEnd(f.end, f.segSize)

\* i <= w fails: the invocation returns to its caller.
LoopExit ==
    /\ stack # <<>>
    /\ Top.pc = "loop"
    /\ Top.i > dWidth
    /\ stack' = SubSeq(stack, 1, Len(stack) - 1)
    /\ UNCHANGED <<cls, dWidth, arraySave, dvars, hvars, cvars>>

\* No aligned block of this size fits: on to the next size.
LoopSkip ==
    /\ stack # <<>>
    /\ Top.pc = "loop"
    /\ Top.i <= dWidth
    /\ ~BlockFits(Top)
    /\ stack' = SetTop(NextIteration(Top))
    /\ UNCHANGED <<cls, dWidth, arraySave, dvars, hvars, cvars>>

\* A slip in EnterBlock: the lower leftover is taken up to blockStart, one
\* address too far.
EnterBlock_LowerInclusive ==
    /\ stack # <<>>
    /\ Top.pc = "loop"
    /\ Top.i <= dWidth
    /\ BlockFits(Top)
    /\ LET f == [Top EXCEPT !.pc = "segments",
                            !.blockStart = BlockStart(Top.start, Top.segSize),
                            !.blockEnd = BlockEnd(Top.end, Top.segSize)]
       IN  stack' = IF f.start < f.blockStart
                    THEN Push(f, NewFrame(dWidth, f.start, f.blockStart,
                                          FALSE))
                    ELSE SetTop(f)
    /\ UNCHANGED <<cls, dWidth, arraySave, dvars, hvars, cvars>>

\* A block fits: the lower leftover, if any, is decomposed first.
EnterBlock ==
    /\ stack # <<>>
    /\ Top.pc = "loop"
    /\ Top.i <= dWidth
    /\ BlockFits(Top)
    /\ LET f == [Top EXCEPT !.pc = "segments",
                            !.blockStart = BlockStart(Top.start, Top.segSize),
                            !.blockEnd = BlockEnd(Top.end, Top.segSize)]
       IN  stack' = IF f.start < f.blockStart
                    THEN Push(f, NewFrame(dWidth, f.start, f.blockStart - 1,
                                          FALSE))
                    ELSE SetTop(f)
    /\ UNCHANGED <<cls, dWidth, arraySave, dvars, hvars, cvars>>

\* The run of aligned segments is pushed and start moves past it; the upper
\* leftover, if any, is decomposed next.
Segments ==
    /\ stack # <<>>
    /\ Top.pc = "segments"
    /\ LET run == PushSegments(Top.blockStart, Top.segSize, Top.blockEnd,
                               Top.i, arraySave)
           f == [Top EXCEPT !.start = run.segStart,
                            !.emitAt = IF run.array = arraySave THEN @
                                        ELSE @ \cup {Top.i}]
       IN  /\ arraySave' = run.array
           /\ stack' = IF f.blockEnd < f.end
                       THEN Push([f EXCEPT !.pc = "clamp"],
                                 NewFrame(dWidth, f.blockEnd + 1, f.end, FALSE))
                       ELSE SetTop(NextIteration(f))
    /\ UNCHANGED <<cls, dWidth, dvars, hvars, cvars>>

\* A slip in Clamp: end is left as it was after the upper leftover's call.
Clamp_EndKept ==
    /\ stack # <<>>
    /\ Top.pc = "clamp"
    /\ stack' = SetTop(NextIteration(Top))
    /\ UNCHANGED <<cls, dWidth, arraySave, dvars, hvars, cvars>>

\* intEndAddr = intBlockEnd, after the upper leftover's call.
Clamp ==
    /\ stack # <<>>
    /\ Top.pc = "clamp"
    /\ stack' = SetTop(NextIteration([Top EXCEPT !.end = Top.blockEnd]))
    /\ UNCHANGED <<cls, dWidth, arraySave, dvars, hvars, cvars>>

(***************************************************************************)
(* Idle values of the parts a specification does not use.                  *)
(***************************************************************************)
MachineIdle ==
    /\ stack = <<>>
    /\ dWidth = 0
    /\ arraySave = <<>>

NoNarrow == [set |-> FALSE, width |-> 0, start |-> 0, end |-> 0,
             array |-> <<>>]
DirectIdle ==
    /\ dPc = "idle"
    /\ dStart = 0
    /\ dEnd = 0
    /\ dNarrow = NoNarrow

HandleIdle ==
    /\ hPc = "idle"
    /\ _intStartAddr = Undefined
    /\ _intEndAddr = Undefined
    /\ _arraySubnet = Undefined
    /\ lastText = <<>>
    /\ lastOutcome = "none"
    /\ everSet = FALSE

CodecIdle ==
    /\ cDir = "idle"
    /\ cInt = Num(0)
    /\ cText = <<>>
    /\ cInt2 = Num(0)
    /\ cText2 = <<>>

(***************************************************************************)
(* Direct calls of the decomposer, at every width up to MaxWidth, on every *)
(* range 0 <= start <= end < 2^w, with an empty array to save into.        *)
(***************************************************************************)
DecomposeCall ==
    /\ dPc = "idle"
    /\ \E w \in 1..MaxWidth :
         \E s \in 0..(Pow(2, w) - 1) :
           \E e \in s..(Pow(2, w) - 1) :
             /\ dWidth' = w
             /\ dStart' = s
             /\ dEnd' = e
             /\ stack' = <<NewFrame(w, s, e, FALSE)>>
    /\ arraySave' = <<>>
    /\ dPc' = "running"
    /\ UNCHANGED <<cls, dNarrow, hvars, cvars>>

DecomposeReturn ==
    /\ dPc = "running"
    /\ stack = <<>>
    /\ dPc' = "done"
    /\ UNCHANGED <<cls, mvars, dStart, dEnd, dNarrow, hvars, cvars>>

InitDecomp ==
    /\ cls = "none"
    /\ MachineIdle
    /\ DirectIdle
    /\ HandleIdle
    /\ CodecIdle
NextDecomp ==
    \/ DecomposeCall
    \/ LoopExit
    \/ LoopSkip
    \/ EnterBlock
    \/ Segments
    \/ Clamp
    \/ DecomposeReturn
SpecDecomp == InitDecomp /\ [][NextDecomp]_vars

\* The routine is sequential code: an invocation that can take its next step
\* takes it.
DecomposerStep ==
    \/ LoopExit
    \/ LoopSkip
    \/ EnterBlock
    \/ Segments
    \/ Clamp
    \/ DecomposeReturn
SpecDecompFair == SpecDecomp /\ WF_vars(DecomposerStep)

(***************************************************************************)
(* Two direct calls in a row: a range [s, e] at a width w, then the range  *)
(* [H + s, H + e] at a wider width W, H a multiple of 2^w with             *)
(* H + 2^w <= 2^W, as a range of the 32-bit routine lies in one /96 of the *)
(* 128-bit routine.  The first call's arguments and result are kept.       *)
(***************************************************************************)
WidenCall ==
    /\ dPc = "done"
    /\ ~dNarrow.set
    /\ dWidth < MaxWidth
    /\ \E W \in (dWidth + 1)..MaxWidth :
         \E h \in 0..(Pow(2, W - dWidth) - 1) :
           LET H == h * Pow(2, dWidth)
           IN  /\ dWidth' = W
               /\ dStart' = H + dStart
               /\ dEnd' = H + dEnd
               /\ stack' = <<NewFrame(W, H + dStart, H + dEnd, FALSE)>>
    /\ dNarrow' = [set |-> TRUE, width |-> dWidth, start |-> dStart,
                   end |-> dEnd, array |-> arraySave]
    /\ arraySave' = <<>>
    /\ dPc' = "running"
    /\ UNCHANGED <<cls, hvars, cvars>>

NextWiden ==
    \/ DecomposeCall
    \/ WidenCall
    \/ LoopExit
    \/ LoopSkip
    \/ EnterBlock
    \/ Segments
    \/ Clamp
    \/ DecomposeReturn
SpecWiden == InitDecomp /\ [][NextWiden]_vars

(***************************************************************************)
(* The handles: IPv4Range and IPv6Range (both extend IPRange).             *)
(***************************************************************************)
Thrown == [threw |-> TRUE, value |-> <<>>]
Returned(v) == [threw |-> FALSE, value |-> v]

\* IPRange: get subnet
IPRange_get_subnet ==
    IF _arraySubnet = Undefined THEN Thrown ELSE Returned(arraySave)

\* IPv4Range: get iprange
IPv4Range_get_iprange ==
    IF _intStartAddr = Undefined \/ _intEndAddr = Undefined THEN Thrown
    ELSE Returned(_toIPv4AddrString(_intStartAddr) \o <<"-">> \o
                  _toIPv4AddrString(_intEndAddr))

\* IPv6Range: get iprange
IPv6Range_get_iprange ==
    IF _intStartAddr = Undefined \/ _intEndAddr = Undefined THEN Thrown
    ELSE Returned(_toIPv6AddrString(_intStartAddr) \o <<"-">> \o
                  _toIPv6AddrString(_intEndAddr))

\* A slip in SplitRange: without a separator the text is the start only and
\* the end is left empty.
SplitRange_StartOnly(str) ==
    IF Contains(str, "-") THEN Split(str, "-") ELSE <<str, <<>>>>

\* str.indexOf('-') != -1 ? str.split('-') : [str, str]
SplitRange(str) == IF Contains(str, "-") THEN Split(str, "-") ELSE <<str, str>>

\* this._intStartAddr > this._intEndAddr
IsInverted(intStartAddr, intEndAddr) == JsGT(intStartAddr, intEndAddr)

\* The rest of a setter once both endpoints have passed the validator: the
\* two integers are stored, then the range is checked, then the array is
\* replaced and the decomposer is called on it.
StoreAndDecompose(w, intStartAddr, intEndAddr) ==
    /\ _intStartAddr' = intStartAddr
    /\ _intEndAddr' = intEndAddr
    /\ IF IsInverted(intStartAddr, intEndAddr)
       THEN /\ lastOutcome' = "threw"
            /\ UNCHANGED <<_arraySubnet, mvars, hPc>>
       ELSE /\ _arraySubnet' = ArrayRef
            /\ arraySave' = <<>>
            /\ dWidth' = w
            /\ stack' = <<NewFrame(w,
                            IF IsNum(intStartAddr) THEN intStartAddr.val ELSE 0,
                            IF IsNum(intEndAddr) THEN intEndAddr.val ELSE 0,
                            ~IsNum(intStartAddr) \/ ~IsNum(intEndAddr))>>
            /\ hPc' = "decomposing"
            /\ lastOutcome' = "running"

\* IPv4Range: set iprange
IPv4Range_set_iprange(strIPv4Range) ==
    /\ cls = "IPv4Range"
    /\ hPc = "idle"
    /\ lastText' = strIPv4Range
    /\ LET array == SplitRange(strIPv4Range)
       IN  IF ~_isIPv4Addr(array[1]) \/ ~_isIPv4Addr(array[2])
           THEN /\ lastOutcome' = "threw"
                /\ UNCHANGED <<_intStartAddr, _intEndAddr, _arraySubnet,
                               mvars, hPc>>
           ELSE StoreAndDecompose(IPv4Width, _toIPv4AddrInteger(array[1]),
                                  _toIPv4AddrInteger(array[2]))
    /\ UNCHANGED <<cls, everSet, dvars, cvars>>

\* IPv6Range: set iprange
IPv6Range_set_iprange(strIPv6Range) ==
    /\ cls = "IPv6Range"
    /\ hPc = "idle"
    /\ lastText' = strIPv6Range
    /\ LET array == SplitRange(strIPv6Range)
       IN  IF ~_isIPv6Addr(array[1]) \/ ~_isIPv6Addr(array[2])
           THEN /\ lastOutcome' = "threw"
                /\ UNCHANGED <<_intStartAddr, _intEndAddr, _arraySubnet,
                               mvars, hPc>>
           ELSE StoreAndDecompose(IPv6Width, _toIPv6AddrInteger(array[1]),
                                  _toIPv6AddrInteger(array[2]))
    /\ UNCHANGED <<cls, everSet, dvars, cvars>>

\* The decomposer has returned: the setter returns without throwing.
SetterReturn ==
    /\ hPc = "decomposing"
    /\ stack = <<>>
    /\ hPc' = "idle"
    /\ lastOutcome' = "returned"
    /\ everSet' = TRUE
    /\ UNCHANGED <<cls, mvars, dvars, cvars, _intStartAddr, _intEndAddr,
                   _arraySubnet, lastText>>

(***************************************************************************)
(* The texts assigned to a handle.                                         *)
(***************************************************************************)
Dotted(a, b, c, d) ==
    DecString(a) \o <<".">> \o DecString(b) \o <<".">> \o
    DecString(c) \o <<".">> \o DecString(d)
Range(a, b) == a \o <<"-">> \o b

\* Well-formed IPv4 addresses: the first, the last and two in between.
IPv4Samples ==
    { Dotted(0, 0, 0, 0), Dotted(0, 0, 0, 1), Dotted(0, 0, 1, 10),
      Dotted(OctetSize - 1, OctetSize - 1, OctetSize - 1, OctetSize - 1) }

\* Texts that are not IPv4 addresses: three and five groups, an octet out
\* of range, a letter for an octet, an empty octet, a letter after the
\* digits, a leading blank, a sign, and the empty text.
IPv4Malformed ==
    { <<"0", ".", "0", ".", "0">>,
      <<"0", ".", "0", ".", "0", ".", "0", ".", "0">>,
      <<"0", ".", "0", ".", "0", ".">> \o DecString(OctetSize),
      <<"0", ".", "0", ".", "0", ".", "a">>,
      <<"0", ".", ".", "0", ".", "1">>,
      <<"0", ".", "0", ".", "0", ".", "1", "x">>,
      <<" ", "0", ".", "0", ".", "0", ".", "1">>,
      <<"0", ".", "0", ".", "0", ".", "+", "1">>,
      <<>> }

IPv4Texts ==
    IPv4Samples \cup IPv4Malformed
      \cup {Range(a, b) : a \in IPv4Samples, b \in IPv4Samples}
      \cup {Range(Dotted(0, 0, 0, 1), b) : b \in IPv4Malformed}
      \cup {Range(a, Dotted(0, 0, 1, 10)) : a \in IPv4Malformed}

\* One IPv6 group: n in HextetDigits lowercase hex digits.
Group(n) == PadSlice(HexString(n))
Coloned(a, b) == Group(a) \o <<":">> \o Group(b)
UpperChar(c) ==
    IF \E i \in 1..16 : HexDigits[i] = c
    THEN HexUpper[CHOOSE i \in 1..16 : HexDigits[i] = c] ELSE c
Upper(str) == [k \in 1..Len(str) |-> UpperChar(str[k])]

\* Well-formed lowercase IPv6 addresses.
IPv6Samples ==
    { Coloned(0, 0), Coloned(0, 1), Coloned(10, HextetSize - 1),
      Coloned(HextetSize - 1, HextetSize - 1) }

\* The same addresses with uppercase hex digits, and one of mixed case.
IPv6UpperSamples ==
    { Upper(Coloned(10, HextetSize - 1)),
      Upper(Coloned(HextetSize - 1, HextetSize - 1)),
      Group(10) \o <<":">> \o Upper(Group(HextetSize - 1)) }

\* Texts that are not IPv6 addresses: one and three groups, a group one
\* digit short, one digit long, with a non-hex character, and the empty
\* text.
IPv6Malformed ==
    { Group(0),
      Group(0) \o <<":">> \o Group(0) \o <<":">> \o Group(1),
      Group(0) \o <<":">> \o Tail(Group(1)),
      Group(0) \o <<":", "0">> \o Group(1),
      Group(0) \o <<":">> \o Tail(Group(1)) \o <<"g">>,
      <<>> }

IPv6Texts ==
    IPv6Samples \cup IPv6UpperSamples \cup IPv6Malformed
      \cup {Range(a, b) : a \in IPv6Samples, b \in IPv6Samples}
      \cup {Range(a, b) : a \in IPv6UpperSamples, b \in IPv6UpperSamples}
      \cup {Range(Coloned(0, 1), b) : b \in IPv6Malformed \cup IPv6UpperSamples}
      \cup {Range(a, Coloned(10, HextetSize - 1)) : a \in IPv6Malformed}

\* A handle is assigned to between calls only: nothing interleaves with a
\* running setter.
IPv4Assign ==
    /\ cls = "IPv4Range"
    /\ hPc = "idle"
    /\ \E str \in IPv4Texts : IPv4Range_set_iprange(str)
IPv6Assign ==
    /\ cls = "IPv6Range"
    /\ hPc = "idle"
    /\ \E str \in IPv6Texts : IPv6Range_set_iprange(str)

InitHandle ==
    /\ cls \in {"IPv4Range", "IPv6Range"}
    /\ MachineIdle
    /\ DirectIdle
    /\ HandleIdle
    /\ CodecIdle
NextHandle ==
    \/ IPv4Assign
    \/ IPv6Assign
    \/ LoopExit
    \/ LoopSkip
    \/ EnterBlock
    \/ Segments
    \/ Clamp
    \/ SetterReturn
SpecHandle == InitHandle /\ [][NextHandle]_vars

(***************************************************************************)
(* Direct calls of the codec: an integer formatted and parsed back, and a  *)
(* text parsed and formatted back.                                         *)
(***************************************************************************)
\* Group values: the small ones, those around the first two-digit decimal
\* and the first hex letter, and the largest.
OctetSamples == {0, 1, 9, 10, 11, OctetSize - 2, OctetSize - 1}
HextetSamples == {0, 1, 9, 10, 15, 16, HextetSize - 2, HextetSize - 1}

\* IPv4 integers: every value of the two low octets, and every combination
\* of the sampled octets.
IPv4Integers ==
    (0..(OctetSize * OctetSize - 1)) \cup
    { ((a * OctetSize + b) * OctetSize + c) * OctetSize + d :
          a \in OctetSamples, b \in OctetSamples,
          c \in OctetSamples, d \in OctetSamples }
\* IPv6 integers: every value of the low group, and every combination of the
\* sampled groups.
IPv6Integers ==
    (0..(HextetSize - 1)) \cup
    { a * HextetSize + b : a \in HextetSamples, b \in HextetSamples }

\* Texts of IPv4 octets: minimal decimals, and with them a padded one, one
\* out of range and one that is no number.
OctetTexts ==
    {DecString(n) : n \in OctetSamples} \cup
    { <<"0", "1">>, DecString(OctetSize), <<"a">> }
IPv4CodecTexts ==
    { a \o <<".">> \o b \o <<".">> \o c \o <<".">> \o d :
          a \in OctetTexts, b \in OctetTexts, c \in OctetTexts,
          d \in OctetTexts }
\* Texts of IPv6 groups: padded lowercase, and with them an uppercase one
\* and one without padding.
HextetTexts ==
    {Group(n) : n \in HextetSamples} \cup
    { Upper(Group(HextetSize - 1)), HexString(1) }
IPv6CodecTexts ==
    { a \o <<":">> \o b : a \in HextetTexts, b \in HextetTexts }

IPv4FormatParse ==
    /\ cDir = "idle"
    /\ \E a \in IPv4Integers :
        /\ cDir' = "IPv4 integer"
        /\ cInt' = Num(a)
        /\ cText' = _toIPv4AddrString(Num(a))
        /\ cInt2' = _toIPv4AddrInteger(_toIPv4AddrString(Num(a)))
        /\ cText2' = <<>>
        /\ UNCHANGED <<cls, mvars, dvars, hvars>>

IPv4ParseFormat ==
    /\ cDir = "idle"
    /\ \E str \in IPv4CodecTexts :
        /\ cDir' = "IPv4 text"
        /\ cText' = str
        /\ cInt' = _toIPv4AddrInteger(str)
        /\ cText2' = _toIPv4AddrString(_toIPv4AddrInteger(str))
        /\ cInt2' = Num(0)
        /\ UNCHANGED <<cls, mvars, dvars, hvars>>

IPv6FormatParse ==
    /\ cDir = "idle"
    /\ \E a \in IPv6Integers :
        /\ cDir' = "IPv6 integer"
        /\ cInt' = Num(a)
        /\ cText' = _toIPv6AddrString(Num(a))
        /\ cInt2' = _toIPv6AddrInteger(_toIPv6AddrString(Num(a)))
        /\ cText2' = <<>>
        /\ UNCHANGED <<cls, mvars, dvars, hvars>>

IPv6ParseFormat ==
    /\ cDir = "idle"
    /\ \E str \in IPv6CodecTexts :
        /\ cDir' = "IPv6 text"
        /\ cText' = str
        /\ cInt' = _toIPv6AddrInteger(str)
        /\ cText2' = _toIPv6AddrString(_toIPv6AddrInteger(str))
        /\ cInt2' = Num(0)
        /\ UNCHANGED <<cls, mvars, dvars, hvars>>

InitCodec ==
    /\ cls = "none"
    /\ MachineIdle
    /\ DirectIdle
    /\ HandleIdle
    /\ CodecIdle
NextCodec ==
    \/ IPv4FormatParse
    \/ IPv4ParseFormat
    \/ IPv6FormatParse
    \/ IPv6ParseFormat
SpecCodec == InitCodec /\ [][NextCodec]_vars

(***************************************************************************)
(* Claims about the decomposer (checked under SpecDecomp).                 *)
(***************************************************************************)
BlockSize(w, b) == Pow(2, w - b.prefix)
BlockLast(w, b) == b.base + BlockSize(w, b) - 1
InBlock(w, b, a) == b.base <= a /\ a <= BlockLast(w, b)
WholeSpace(w, s, e) == s = 0 /\ e = Pow(2, w) - 1
Decomposed == dPc = "done"

\* The least number of aligned blocks that partition [s, e], a range inside
\* the aligned block of size 2^k at lo.  The range is that block itself (one
\* block), or every aligned block inside it lies in one half of that block,
\* so a partition of [s, e] is a partition of its part in the lower half
\* together with a partition of its part in the upper half.
RECURSIVE MinBlocks(_, _, _, _)
MinBlocks(k, lo, s, e) ==
    IF s = lo /\ e = lo + Pow(2, k) - 1 THEN 1
    ELSE LET mid == lo + Pow(2, k - 1)
         IN  IF e < mid THEN MinBlocks(k - 1, lo, s, e)
             ELSE IF s >= mid THEN MinBlocks(k - 1, mid, s, e)
             ELSE MinBlocks(k - 1, lo, s, mid - 1)
                      + MinBlocks(k - 1, mid, mid, e)
MinCover(w, s, e) == MinBlocks(w, 0, s, e)

\* C1 (coverage): the emitted blocks partition [start, end] exactly: every
\* address of the range lies in exactly one block, and no block holds an
\* address outside the range.
C1_Coverage ==
    Decomposed =>
        \A a \in 0..(Pow(2, dWidth) - 1) :
            LET holders == {k \in 1..Len(arraySave) :
                                InBlock(dWidth, arraySave[k], a)}
            IN  IF dStart <= a /\ a <= dEnd
                THEN Cardinality(holders) = 1
                ELSE holders = {}
C1_Witness ==
    /\ Decomposed
    /\ dWidth = MaxWidth
    /\ dStart = 1
    /\ dEnd = Pow(2, dWidth) - 2
    /\ Len(arraySave) = 2 * (dWidth - 1)

\* C2 (minimality): unless the range is the whole address space, no list of
\* aligned blocks that partitions [start, end] is shorter than the emitted one.
C2_Minimal ==
    (Decomposed /\ ~WholeSpace(dWidth, dStart, dEnd)) =>
        Len(arraySave) = MinCover(dWidth, dStart, dEnd)
C2_Witness ==
    /\ Decomposed
    /\ dWidth >= 3
    /\ dStart = 0
    /\ dEnd = Pow(2, dWidth) - 2
    /\ Len(arraySave) = dWidth
    /\ MinCover(dWidth, dStart, dEnd) = dWidth

\* C3 (ordering): the first block starts at start and every block starts
\* where the block before it ends, so bases strictly ascend.
C3_Ordered ==
    Decomposed =>
        /\ Len(arraySave) >= 1
        /\ arraySave[1].base = dStart
        /\ \A k \in 1..(Len(arraySave) - 1) :
               /\ arraySave[k + 1].base =
                      arraySave[k].base + BlockSize(dWidth, arraySave[k])
               /\ arraySave[k].base < arraySave[k + 1].base
C3_Witness ==
    /\ Decomposed
    /\ dWidth >= 3
    /\ Len(arraySave) >= 4
    /\ arraySave[1].prefix > arraySave[2].prefix
    /\ arraySave[Len(arraySave) - 1].prefix < arraySave[Len(arraySave)].prefix

\* C4 (alignment): every emitted base is a multiple of its block size and lies
\* in the address space.
C4_Aligned ==
    Decomposed =>
        \A k \in 1..Len(arraySave) :
            /\ arraySave[k].base % BlockSize(dWidth, arraySave[k]) = 0
            /\ 0 <= arraySave[k].base
            /\ arraySave[k].base < Pow(2, dWidth)
C4_Witness ==
    /\ Decomposed
    /\ dStart % 2 = 1
    /\ \E k \in 1..Len(arraySave) :
           /\ arraySave[k].base > 0
           /\ arraySave[k].prefix < dWidth - 1

\* C5 (no /0): every emitted prefix length is in 1..w, and the whole address
\* space comes out as the two halves (0, /1) and (2^(w-1), /1), in that order.
C5_NoSlashZero ==
    Decomposed =>
        /\ \A k \in 1..Len(arraySave) : arraySave[k].prefix \in 1..dWidth
        /\ WholeSpace(dWidth, dStart, dEnd) =>
               arraySave = << [base |-> 0, prefix |-> 1],
                              [base |-> Pow(2, dWidth - 1), prefix |-> 1] >>
C5_Witness ==
    /\ Decomposed
    /\ dWidth = MaxWidth
    /\ WholeSpace(dWidth, dStart, dEnd)
    /\ Len(arraySave) = 2

(***************************************************************************)
(* Claims about the handles (checked under SpecHandle).                    *)
(***************************************************************************)
\* The grammar of an address as the specification states it.  IPv4: four
\* groups of decimal digits, each a value below the octet limit.  IPv6:
\* NumHextets groups of exactly HextetDigits hex digits of either case.
GrammarOctet(t) ==
    /\ t # <<>>
    /\ \A k \in 1..Len(t) : IsDecDigit(t[k])
    /\ DecValue(t) < OctetSize
GrammarIPv4(str) ==
    LET g == Split(str, ".")
    IN  Len(g) = NumOctets /\ \A i \in 1..Len(g) : GrammarOctet(g[i])
GrammarIPv6(str) ==
    LET g == Split(str, ":")
    IN  /\ Len(g) = NumHextets
        /\ \A i \in 1..Len(g) :
               /\ Len(g[i]) = HextetDigits
               /\ \A k \in 1..Len(g[i]) : IsHexChar(g[i][k])
Grammar(str) ==
    IF cls = "IPv4Range" THEN GrammarIPv4(str) ELSE GrammarIPv6(str)
ParsedValue(str) ==
    IF cls = "IPv4Range" THEN _toIPv4AddrInteger(str).val
    ELSE _toIPv6AddrInteger(str).val

\* The two endpoints of the last assigned text.
LastStart == SplitRange(lastText)[1]
LastEnd == SplitRange(lastText)[2]
Assigned == lastOutcome # "none"
AtRest == hPc = "idle"

\* What the two getters of the handle return or throw.
GetRange ==
    IF cls = "IPv4Range" THEN IPv4Range_get_iprange ELSE IPv6Range_get_iprange
GetSubnet == IPRange_get_subnet

\* C6 (failure atomicity): once an assignment has succeeded, an assignment
\* that throws leaves what both getters return as it was before the call.
C6_FailureAtomic ==
    [][ (AtRest /\ everSet /\ AtRest' /\ lastOutcome' = "threw")
            => (GetRange' = GetRange /\ GetSubnet' = GetSubnet) ]_vars

\* C7 (not set): while no assignment has succeeded, both getters throw,
\* whatever failed assignments came before; the two getters throw under the
\* same condition.
C7_NotSet ==
    (AtRest /\ ~everSet) =>
        /\ GetRange.threw
        /\ GetSubnet.threw

\* C8 (malformed endpoints): an assignment in which either endpoint does not
\* match the grammar throws, and the decomposer is not run.
C8_MalformedRejected ==
    (Assigned /\ (~Grammar(LastStart) \/ ~Grammar(LastEnd))) =>
        (lastOutcome = "threw" /\ hPc = "idle")

\* C9 (inverted ranges): for endpoints that both match the grammar, the
\* assignment throws when start > end and succeeds when start <= end.
C9_InvertedRejected ==
    (Assigned /\ AtRest /\ Grammar(LastStart) /\ Grammar(LastEnd)) =>
        IF ParsedValue(LastStart) > ParsedValue(LastEnd)
        THEN lastOutcome = "threw"
        ELSE lastOutcome = "returned"

\* An address in the form the getters write it: the only form in which a
\* text can be read back as it was assigned.
CanonicalText(str) ==
    IF cls = "IPv4Range" THEN LET g == Split(str, ".")
                              IN  /\ Len(g) = NumOctets
                                  /\ \A i \in 1..Len(g) :
                                         /\ GrammarOctet(g[i])
                                         /\ (Len(g[i]) > 1 => g[i][1] # "0")
    ELSE /\ GrammarIPv6(str)
         /\ \A k \in 1..Len(str) : str[k] = ":" \/ IsHextetChar(str[k])
HandleWidth == IF cls = "IPv4Range" THEN IPv4Width ELSE IPv6Width

LowerChar(c) ==
    IF \E i \in 1..16 : HexUpper[i] = c
    THEN HexDigits[CHOOSE i \in 1..16 : HexUpper[i] = c] ELSE c
Lower(str) == [k \in 1..Len(str) |-> LowerChar(str[k])]
HasUpper(str) == Lower(str) # str

\* C12 (IPv6 input case): an IPv6 range whose endpoints match the grammar,
\* with uppercase hex digits in them, and whose start is not above its end
\* is accepted; the integers stored are those of the lowercase spelling, and
\* the range and the subnets read back are in lowercase.
C12_UpperAccepted ==
    (cls = "IPv6Range" /\ Assigned /\ AtRest /\ HasUpper(lastText)
       /\ GrammarIPv6(LastStart) /\ GrammarIPv6(LastEnd)
       /\ ParsedValue(LastStart) <= ParsedValue(LastEnd)) =>
        /\ lastOutcome = "returned"
        /\ _intStartAddr = _toIPv6AddrInteger(Lower(LastStart))
        /\ _intEndAddr = _toIPv6AddrInteger(Lower(LastEnd))
        /\ GetRange = Returned(Range(Lower(LastStart), Lower(LastEnd)))
        /\ ~GetSubnet.threw
        /\ \A k \in 1..Len(GetSubnet.value) :
               ~HasUpper(GetSubnet.value[k])

\* The decomposition of [s, e], a range inside the aligned block of size 2^k
\* at lo, in address order: that block itself, or the decomposition of the
\* part in its lower half followed by that of the part in its upper half.
RECURSIVE RefBlocks(_, _, _, _, _)
RefBlocks(w, k, lo, s, e) ==
    IF s = lo /\ e = lo + Pow(2, k) - 1
    THEN << [base |-> lo, prefix |-> w - k] >>
    ELSE LET mid == lo + Pow(2, k - 1)
         IN  IF e < mid THEN RefBlocks(w, k - 1, lo, s, e)
             ELSE IF s >= mid THEN RefBlocks(w, k - 1, mid, s, e)
             ELSE RefBlocks(w, k - 1, lo, s, mid - 1)
                      \o RefBlocks(w, k - 1, mid, mid, e)
\* The whole address space is its two halves.
RefDecomposition(w, s, e) ==
    IF WholeSpace(w, s, e)
    THEN RefBlocks(w, w - 1, 0, 0, Pow(2, w - 1) - 1)
             \o RefBlocks(w, w - 1, Pow(2, w - 1), Pow(2, w - 1), e)
    ELSE RefBlocks(w, w, 0, s, e)
RefSubnets(w, s, e) ==
    LET blocks == RefDecomposition(w, s, e)
    IN  [k \in 1..Len(blocks) |->
            SubnetEntry(blocks[k].base, blocks[k].prefix)]

\* C13 (range/subnet consistency): whenever the subnet getter succeeds, the
\* iprange getter succeeds, the stored start is not above the stored end, and
\* the stored subnet list is the decomposition of the stored pair.
C13_Consistent ==
    (AtRest /\ ~GetSubnet.threw) =>
        /\ ~GetRange.threw
        /\ IsNum(_intStartAddr)
        /\ IsNum(_intEndAddr)
        /\ _intStartAddr.val <= _intEndAddr.val
        /\ GetSubnet.value =
               RefSubnets(HandleWidth, _intStartAddr.val, _intEndAddr.val)

(***************************************************************************)
(* Claims about the codec (checked under SpecCodec).                       *)
(***************************************************************************)
\* Canonical texts.  IPv4: four decimal octets below the octet limit, each
\* without a leading zero (the octet 0 is "0").  IPv6: NumHextets groups of
\* HextetDigits lowercase hex digits.
CanonicalOctet(t) ==
    /\ GrammarOctet(t)
    /\ (Len(t) > 1 => t[1] # "0")
CanonicalIPv4(str) ==
    LET g == Split(str, ".")
    IN  Len(g) = NumOctets /\ \A i \in 1..Len(g) : CanonicalOctet(g[i])
CanonicalIPv6(str) ==
    LET g == Split(str, ":")
    IN  /\ Len(g) = NumHextets
        /\ \A i \in 1..Len(g) :
               /\ Len(g[i]) = HextetDigits
               /\ \A k \in 1..Len(g[i]) :
                      \E d \in 1..16 : HexDigits[d] = g[i][k]

\* C10 (round trip): an address integer formatted and parsed back is
\* itself, and a canonical text parsed and formatted back is itself, in
\* both families.
C10_RoundTrip ==
    /\ cDir \in {"IPv4 integer", "IPv6 integer"} => cInt2 = cInt
    /\ (cDir = "IPv4 text" /\ CanonicalIPv4(cText)) => cText2 = cText
    /\ (cDir = "IPv6 text" /\ CanonicalIPv6(cText)) => cText2 = cText
C10_Witness ==
    /\ cDir = "IPv6 text"
    /\ CanonicalIPv6(cText)
    /\ cText[1] = "0"
    /\ cText[Len(cText)] = "f"
    /\ cInt.val > HextetSize
    /\ cText2 = cText

(***************************************************************************)
(* Claims about the course of a decomposition.                             *)
(***************************************************************************)
Calls == stack # <<>> /\ Len(stack') = Len(stack) + 1
Returns == stack # <<>> /\ Len(stack') = Len(stack) - 1
Callee == stack'[Len(stack')]
IntervalLen(f) == f.end - f.start + 1

\* C14 (termination, bounded recursion), checked under SpecDecompFair: a
\* call of the decomposer on 0 <= start <= end < 2^w returns; an invocation
\* returns after w iterations of its loop (i has run from 1 to w + 1); every
\* recursive call is on a non-empty interval inside the caller's interval,
\* shorter than it and shorter than one segment of the current size; no more
\* than w invocations are ever nested.
C14_Terminates ==
    /\ [](dPc = "running" =>
            /\ Len(stack) <= dWidth
            /\ \A k \in 1..Len(stack) : stack[k].i \in 1..(dWidth + 1))
    /\ [][Returns => Top.i = dWidth + 1]_vars
    /\ [][Calls =>
            /\ Callee.i = 1
            /\ Callee.start <= Callee.end
            /\ Top.start <= Callee.start
            /\ Callee.end <= Top.end
            /\ IntervalLen(Callee) < IntervalLen(Top)
            /\ IntervalLen(Callee) < Top.segSize]_vars
    /\ (dPc = "running" ~> dPc = "done")
C14_Witness ==
    /\ dPc = "running"
    /\ dWidth = MaxWidth
    /\ Len(stack) = dWidth
    /\ Top.start = Top.end

\* An aligned block of prefix length p lies inside [s, e].
FitsAt(w, p, s, e) ==
    \E m \in 0..(Pow(2, p) - 1) :
        /\ s <= m * Pow(2, w - p)
        /\ (m + 1) * Pow(2, w - p) - 1 <= e
HasEmitted(f) == f.emitAt # {}

\* C15 (one emitting step per invocation): an invocation pushes entries of
\* its own at one value of i only, the first prefix length at which an
\* aligned block lies inside its interval, and there it pushes one or two;
\* from then on its interval is empty (start = end + 1) and its later
\* iterations neither push nor call; it has pushed when it returns.
C15_OneEmittingStep ==
    [][ /\ (stack # <<>> /\ arraySave' # arraySave) =>
              /\ Top.pc = "segments"
              /\ ~HasEmitted(Top)
              /\ Len(arraySave') - Len(arraySave) \in {1, 2}
              /\ \A k \in (Len(arraySave) + 1)..Len(arraySave') :
                     arraySave'[k].prefix = Top.i
              /\ FitsAt(dWidth, Top.i, Top.start, Top.end)
              /\ \A q \in 1..(Top.i - 1) :
                     ~FitsAt(dWidth, q, Top.start, Top.end)
        /\ (stack # <<>> /\ Top.pc = "loop" /\ HasEmitted(Top)) =>
              /\ Top.start = Top.end + 1
              /\ arraySave' = arraySave
              /\ ~Calls
              /\ Len(stack') = Len(stack) => stack'[Len(stack)].pc = "loop"
        /\ (stack # <<>> /\ Top.pc = "loop" /\ ~HasEmitted(Top)) =>
              Top.start <= Top.end
        /\ Returns => Cardinality(Top.emitAt) = 1 ]_vars
C15_Witness ==
    /\ dPc = "running"
    /\ Len(stack) = 1
    /\ Top.pc = "loop"
    /\ Top.i <= dWidth
    /\ Top.emitAt = {Top.i - 1}
    /\ Top.start = Top.end + 1
    /\ Len(arraySave) = 2
    /\ arraySave[1].prefix = arraySave[2].prefix

\* C16 (width independence), checked under SpecWiden: a range other than the
\* whole space decomposed at width w, then H higher at a wider width W: the
\* second list is the first with every base H higher and every prefix length
\* W - w longer, in the same order.
C16_WidthIndependent ==
    (dPc = "done" /\ dNarrow.set
       /\ ~WholeSpace(dNarrow.width, dNarrow.start, dNarrow.end)) =>
        LET H == dStart - dNarrow.start
            d == dWidth - dNarrow.width
        IN  /\ Len(arraySave) = Len(dNarrow.array)
            /\ \A k \in 1..Len(arraySave) :
                   arraySave[k] = [base |-> dNarrow.array[k].base + H,
                                   prefix |-> dNarrow.array[k].prefix + d]
C16_Witness ==
    /\ dPc = "done"
    /\ dNarrow.set
    /\ dNarrow.width >= 3
    /\ dWidth = MaxWidth
    /\ dStart > Pow(2, dNarrow.width)
    /\ Len(dNarrow.array) >= 4
    /\ arraySave[1].base = dNarrow.array[1].base + (dStart - dNarrow.start)
    /\ arraySave[1].prefix > dNarrow.array[1].prefix

=============================================================================
